---- MODULE Spec2Model ----
(***************************************************************************)
(* Oral-Messaging node (package omnode): the consensus store of each node, *)
(* the word array, the membership keys and the CONSENSUS datagrams in      *)
(* flight; and one node's event loop with its membership records, gossip   *)
(* cache and console.  Peer keys "host:port" are numbered addresses; text  *)
(* values are sequences of character codes compared as Python compares     *)
(* str; times are whole seconds.                                           *)
(***************************************************************************)
EXTENDS Integers, Sequences, FiniteSets, TLC

\* ------------------------------------------------------------------ bounds
NumNodes == 4
MaxRoots == 1
MaxForged == 2
MaxDepth == 6
MaxReports == 4
MaxPeers == 7
MaxTicks == 3
MaxGossip == 2

\* --------------------------------------------------------------- constants
WordSlots == 5
NoId == 0
NoPeer == 0
\* the event loop's and the gossip engine's numbers, in seconds
SelectTimeout == 1
CleanupEvery == 5
HeartbeatEvery == 60
StaleAfter == 120
GossipTtl == 300
Fanout == 5
\* time.time() when the process starts, and the 0.0 of last_cleanup
Epoch == 1000
NoTime == 0

Node == 1..NumNodes
\* the fleet's addresses and one that belongs to no node of the fleet
Outsider == NumNodes + 1
Addr == Node \cup {Outsider}
\* ids that no uuid4 call of the fleet returns
ForgedIds == {11, 12}

\* "a", "b", "ab" and the sentinel of choose_value, as character codes
WordA == <<97>>
WordB == <<98>>
WordAB == <<97, 98>>
FaultyAttack == <<102, 97, 117, 108, 116, 121, 95, 97, 116, 116, 97, 99, 107>>
EmptyStr == <<>>
NoValue == <<-1>>
Words == {WordA, WordB}
Values == {WordA, WordB, WordAB, FaultyAttack}

\* random.random() in [0, 1) and node.lie_rate in [0, 1], both in percent
Samples == {0, 99}
LieRates == {50, 100}

\* index arguments of start_root: in range and out of range
Indices == {-1, 2, 5}

VARIABLES
    running,        \* the nodes whose process has been started
    peers,          \* node.peers: the membership keys of each node
    lie_mode,       \* node.lie_mode
    lie_rate,       \* node.lie_rate, in percent
    word_list,      \* node.word_list
    consensus_map,  \* consensus.consensus_map: id -> ConsensusState
    net,            \* CONSENSUS datagrams sent and not yet received
    nextId,         \* the next uuid4 (fresh by construction)
    roots,          \* start_root calls made so far
    forged,         \* datagrams received that no node of the fleet sent
    last,           \* the handler invocation that ran last, with what it emitted
                    \* (dup: it handled the very datagram handled just before)
    written,        \* every word-slot write so far, with the instance it was for
                    \* and the handler that made it
    started,        \* every root started so far, with the word given on the console
    ds,             \* a ConsensusState exercised on its own (record_report, decide)
    dret,           \* what the last decide call on ds returned
    clock,          \* time.time()
    alive,          \* run() of the node whose event loop is followed has not ended
    loop_at,        \* now of the loop iteration under way
    last_cleanup,   \* node.last_cleanup
    last_heartbeat, \* node.last_heartbeat
    gpeers,         \* node.peers of that node: key -> last_seen
    gossip_cache,   \* node.gossip_cache: gossip id -> time stored
    ticks,          \* how often time has been let pass
    gossips,        \* GOSSIP datagrams received so far
    gfirst,         \* gossip id -> when a GOSSIP with it was first handled
    glast           \* what the event loop did last, with what it emitted

gossipVars == <<clock, alive, loop_at, last_cleanup, last_heartbeat, gpeers,
                gossip_cache, ticks, gossips, gfirst, glast>>

vars == <<running, peers, lie_mode, lie_rate, word_list, consensus_map, net, nextId,
          roots, forged, last, written, started, ds, dret, gossipVars>>

fleetVars == <<running, peers, lie_mode, lie_rate, word_list, consensus_map, net, nextId,
               roots, forged, last, written, started>>

\* ------------------------------------------------------------ str ordering
MinOf(a, b) == IF a <= b THEN a ELSE b

\* Python's a < b on str: the first differing code point decides, a proper
\* prefix is smaller
StrLess(a, b) ==
    \E k \in 1..(MinOf(Len(a), Len(b)) + 1) :
        /\ \A j \in 1..(k - 1) : a[j] = b[j]
        /\ \/ k > Len(a) /\ k <= Len(b)
           \/ k <= Len(a) /\ k <= Len(b) /\ a[k] < b[k]

RECURSIVE InsertSorted(_, _)
InsertSorted(s, x) ==
    IF s = <<>> THEN <<x>>
    ELSE IF StrLess(x, Head(s)) THEN <<x>> \o s
    ELSE <<Head(s)>> \o InsertSorted(Tail(s), x)

RECURSIVE Sorted(_)
Sorted(s) ==
    IF s = <<>> THEN <<>> ELSE InsertSorted(Sorted(SubSeq(s, 1, Len(s) - 1)), s[Len(s)])

\* --------------------------------------------------------- ConsensusState
ConsensusState(msg) ==
    [ id |-> msg.id,
      omlevel |-> msg.omlevel,
      initiator |-> msg.initiator,
      peers |-> msg.peers,
      index |-> msg.index,
      value |-> msg.value,
      parentid |-> msg.parentid,
      reporter |-> msg.reporter,
      reports |-> <<>>,
      resolved |-> NoValue,
      subconsensus_launched |-> {} ]

SeqRange(s) == { s[i] : i \in DOMAIN s }

\* the keys of a dict kept as its <<key, value>> items in insertion order
Keys(d) == { d[i][1] : i \in DOMAIN d }
Get(d, k) == d[CHOOSE i \in DOMAIN d : d[i][1] = k][2]

\* d[k] = v: a present key keeps its place, a new one goes last
DictSet(d, k, v) ==
    IF k \in Keys(d)
    THEN [ i \in DOMAIN d |-> IF d[i][1] = k THEN <<k, v>> ELSE d[i] ]
    ELSE Append(d, <<k, v>>)

expected_participants(c) == SeqRange(c.peers)

\* record_report keeping the earlier entry beside the new one
record_report_append(c, reporter, value) ==
    [c EXCEPT !.reports = Append(@, <<reporter, value>>)]

record_report(c, reporter, value) ==
    [c EXCEPT !.reports = DictSet(c.reports, reporter, value)]

\* is_complete satisfied by a single report
is_complete_any(c) == c.reports # <<>>

is_complete(c) == expected_participants(c) \subseteq Keys(c.reports)

\* Counter(values): each distinct value with its count, in first-seen order
RECURSIVE Counter(_)
Counter(vals) ==
    IF vals = <<>> THEN <<>>
    ELSE LET rest == Counter(SubSeq(vals, 1, Len(vals) - 1))
             v == vals[Len(vals)]
         IN IF v \in Keys(rest) THEN DictSet(rest, v, Get(rest, v) + 1)
            ELSE Append(rest, <<v, 1>>)

DictValues(d) == [ i \in DOMAIN d |-> d[i][2] ]

MaxCount(counts) ==
    CHOOSE c \in { counts[i][2] : i \in DOMAIN counts } :
        \A i \in DOMAIN counts : counts[i][2] <= c

\* [v for v, c in counts.items() if c == best_count]
Winners(counts) ==
    LET best == MaxCount(counts)
        hit(p) == p[2] = best
        sel == SelectSeq(counts, hit)
    IN [ i \in DOMAIN sel |-> sel[i][1] ]

\* decide() without the sort: the winner seen first
DecideValueFirstSeen(reports) ==
    IF reports = <<>> THEN NoValue
    ELSE Winners(Counter(DictValues(reports)))[1]

\* the value decide() computes from a reports dict (None: NoValue)
DecideValue(reports) ==
    IF reports = <<>> THEN NoValue
    ELSE Sorted(Winners(Counter(DictValues(reports))))[1]

\* decide() overwriting an earlier decision
decide_again(c) ==
    LET r == DecideValue(c.reports)
    IN [ c |-> [c EXCEPT !.resolved = r], result |-> r ]

\* decide(): the instance afterwards and the value returned
decide(c) ==
    IF c.resolved # NoValue THEN [ c |-> c, result |-> c.resolved ]
    ELSE LET r == DecideValue(c.reports)
         IN [ c |-> [c EXCEPT !.resolved = r], result |-> r ]

\* ------------------------------------------------------------ node helpers
\* What one handler invocation works on: the node's own state, the datagrams
\* it has sent, the log lines it has written, the uuid4 source, and whether
\* an exception left the handler.
Local(n) ==
    [ self |-> n,
      peers |-> peers[n],
      cm |-> consensus_map[n],
      wl |-> word_list[n],
      nid |-> nextId,
      sent |-> {},
      log |-> {},
      writes |-> {},
      up |-> {},
      recs |-> {},
      raised |-> FALSE ]

\* node.add_peer: the key enters the membership dict (or is refreshed)
add_peer(st, addr) == [st EXCEPT !.peers = @ \cup {addr}]

\* choose_value drawing its sample whatever lie_mode says
choose_value_unasked(n, honest_value, u) ==
    IF u <= lie_rate[n] THEN FaultyAttack ELSE honest_value

\* choose_value with the sample u that random.random() returned
choose_value(n, honest_value, u) ==
    IF ~lie_mode[n] THEN honest_value
    ELSE IF u <= lie_rate[n] THEN FaultyAttack
    ELSE honest_value

\* get_consensus: the store after the lookup, which creates a missing entry
get_consensus(st, msg) ==
    IF msg.id \in DOMAIN st.cm THEN st
    ELSE [st EXCEPT !.cm = (msg.id :> ConsensusState(msg)) @@ @]

Put(st, cid, c) == [st EXCEPT !.cm = [@ EXCEPT ![cid] = c]]

\* the range test without its lower bound
InRangeUpperOnly(index) == index < WordSlots

InRange(index) == 0 <= index /\ index < WordSlots

\* word_list[index] = v; a negative index counts from the end of the list
SetSlot(wl, index, v) ==
    [wl EXCEPT ![IF index < 0 THEN index + WordSlots + 1 ELSE index + 1] = v]

\* if 0 <= index < len(word_list): word_list[index] = v, on behalf of cid
SetSlotIfInRange(st, cid, index, v) ==
    IF InRange(index)
    THEN [st EXCEPT !.wl = SetSlot(@, index, v),
                    !.writes = @ \cup {[ id |-> cid, index |-> index, value |-> v ]}]
    ELSE st

\* the key of whoever made the last report, before the instance's own reporter
ParentReporterCaller(c, reporter) ==
    IF reporter # NoPeer THEN reporter
    ELSE IF c.reporter # NoPeer THEN c.reporter
    ELSE c.initiator

\* consensus.reporter or reporter or consensus.initiator
ParentReporter(c, reporter) ==
    IF c.reporter # NoPeer THEN c.reporter
    ELSE IF reporter # NoPeer THEN reporter
    ELSE c.initiator

\* propagate_result_upwards committing the decision of whichever instance
\* completes, root or not
propagate_result_any(st, cid, reporter, value, depth) ==
    IF cid \notin DOMAIN st.cm THEN st
    ELSE
      LET c1 == record_report(st.cm[cid], reporter, value)
          st1 == [Put(st, cid, c1) EXCEPT !.up = @ \cup {cid}]
      IN IF ~is_complete(c1) THEN st1
         ELSE LET d == decide(c1)
              IN SetSlotIfInRange(Put(st1, cid, d.c), cid, d.c.index, d.result)

\* propagate_result_upwards; depth frames are left before RecursionError
RECURSIVE propagate_result_upwards(_, _, _, _, _)
propagate_result_upwards(st, cid, reporter, value, depth) ==
    IF cid \notin DOMAIN st.cm THEN st
    ELSE
      LET c1 == record_report(st.cm[cid], reporter, value)
          st1 == [Put(st, cid, c1) EXCEPT
                    !.up = @ \cup {cid},
                    !.recs = @ \cup {[ id |-> cid, key |-> reporter, value |-> value ]}]
      IN IF ~is_complete(c1) THEN st1
         ELSE
           LET d == decide(c1)
               st2 == Put(st1, cid, d.c)
           IN IF d.result = NoValue THEN st2
              ELSE IF d.c.parentid # NoId
              THEN IF d.c.parentid \notin DOMAIN st2.cm THEN st2
                   ELSE IF depth = 0 THEN [st2 EXCEPT !.raised = TRUE]
                   ELSE propagate_result_upwards(st2, d.c.parentid,
                            ParentReporter(d.c, reporter), d.result, depth - 1)
              ELSE IF InRange(d.c.index)
                   THEN [SetSlotIfInRange(st2, cid, d.c.index, d.result)
                            EXCEPT !.log = @ \cup {"complete"}]
                   ELSE st2

\* [p for p in parent.peers if p != sender_key]
Without(ps, k) == LET keep(p) == p # k IN SelectSeq(ps, keep)

\* a set as a list: list(set) gives an unspecified order that nothing reads;
\* the ascending one stands for it
RECURSIVE SetToSeq(_)
SetToSeq(S) ==
    IF S = {} THEN <<>>
    ELSE LET x == CHOOSE y \in S : \A z \in S : y <= z
         IN <<x>> \o SetToSeq(S \ {x})

\* ConsensusState.__init__ sets no attribute default_value, so reading
\* parent.default_value while sub_msg is built raises AttributeError
HasDefaultValue == FALSE

SubMsg(parent, new_id, ps, sender_key, v) ==
    [ id |-> new_id,
      omlevel |-> IF parent.omlevel - 1 > 0 THEN parent.omlevel - 1 ELSE 0,
      initiator |-> parent.initiator,
      peers |-> ps,
      index |-> parent.index,
      value |-> v,
      parentid |-> parent.id,
      reporter |-> sender_key,
      default_value |-> NoValue ]

launch_mark(st, parent, sender_key) ==
    Put(st, parent.id,
        [parent EXCEPT !.subconsensus_launched = @ \cup {sender_key}])

\* launch_subconsensus; su and pu are the samples choose_value draws for the
\* node's own value and for each peer's
launch_subconsensus(st0, parent_msg, sender_key, received_value, su, pu) ==
    LET st == get_consensus(st0, parent_msg)
        parent == st.cm[parent_msg.id]
    IN IF sender_key \in parent.subconsensus_launched \/ parent.omlevel <= 0
       THEN st
       ELSE
         LET st1 == launch_mark(st, parent, sender_key)
             ps == Without(parent.peers, sender_key)
         IN IF ps = <<>> THEN st1
            ELSE IF ~HasDefaultValue THEN [st1 EXCEPT !.raised = TRUE]
            ELSE
              LET new_id == st1.nid
                  self_value == choose_value(st.self, received_value, su)
                  sub_msg == SubMsg(st1.cm[parent.id], new_id, ps, sender_key, self_value)
                  st2 == [st1 EXCEPT
                            !.nid = @ + 1,
                            !.cm = (new_id :> ConsensusState(sub_msg)) @@ @,
                            !.sent = @ \cup
                               { [ dst |-> ps[i], src |-> st.self,
                                   msg |-> [sub_msg EXCEPT !.value =
                                      choose_value(st.self, received_value, pu[ps[i]])] ]
                                 : i \in DOMAIN ps }]
              IN propagate_result_upwards(st2, parent.id, st.self, self_value, MaxDepth)

\* handle_consensus taking the first value received as the decision, whatever
\* the level and whoever has yet to report
handle_consensus_trusting(st0, msg, addr, su, pu) ==
    LET st1 == get_consensus(add_peer(st0, addr), msg)
        d == decide(record_report(st1.cm[msg.id], addr, msg.value))
    IN SetSlotIfInRange(Put(st1, msg.id, d.c), msg.id, d.c.index, d.result)

\* handle_consensus for the datagram msg received from addr
handle_consensus(st0, msg, addr, su, pu) ==
    LET sender == addr
        st1 == get_consensus(add_peer(st0, addr), msg)
        value_received == msg.value
        st2 == Put(st1, msg.id, record_report(st1.cm[msg.id], sender, value_received))
    IN IF st2.cm[msg.id].omlevel > 0
       THEN launch_subconsensus(st2, msg, sender, value_received, su, pu)
       ELSE propagate_result_upwards(st2, msg.id, sender, value_received, MaxDepth)

\* start_root_consensus reading only the membership dict for its peer list
RootPeersKnownOnly(st) == st.peers

\* {peer_key(self)} | set(node.peers.keys())
RootPeers(st) == {st.self} \cup st.peers

\* math.floor((peer_count - 1) / 3)
OmLevel(peer_count) == (peer_count - 1) \div 3

start_root_consensus(st, index, value, su, pu) ==
    LET ps == SetToSeq(RootPeers(st))
        peer_count == Len(ps)
    IN IF peer_count = 0 THEN [st EXCEPT !.log = @ \cup {"no_peers"}]
       ELSE
         LET m == OmLevel(peer_count)
             cid == st.nid
             self_value == choose_value(st.self, value, su)
             msg == [ id |-> cid,
                      omlevel |-> m,
                      initiator |-> st.self,
                      peers |-> ps,
                      index |-> index,
                      value |-> self_value,
                      parentid |-> NoId,
                      reporter |-> NoPeer,
                      default_value |-> value ]
             state == record_report(ConsensusState(msg), st.self, self_value)
             st1 == [st EXCEPT !.nid = @ + 1,
                               !.cm = (cid :> state) @@ @]
             st2 == SetSlotIfInRange(st1, cid, index, self_value)
         IN [st2 EXCEPT
               !.sent = @ \cup
                  { [ dst |-> ps[i], src |-> st.self,
                      msg |-> [msg EXCEPT !.value = choose_value(st.self, value, pu[ps[i]])] ]
                    : i \in { j \in DOMAIN ps : ps[j] # st.self } },
               !.log = @ \cup {"started"}]

\* ---------------------------------------------------------------- actions
\* the samples worth telling apart: one draw for each datagram sent, and an
\* honest node's draws change nothing
NoSamples(to) == [ a \in to |-> 0 ]
SamplesOf(n, to) == IF lie_mode[n] THEN [to -> Samples] ELSE {NoSamples(to)}
SampleOf(n) == IF lie_mode[n] THEN Samples ELSE {0}

\* the peers a child spawned for the datagram msg from src would go to
ChildPeers(n, msg, src) ==
    LET c == IF msg.id \in DOMAIN consensus_map[n] THEN consensus_map[n][msg.id]
             ELSE ConsensusState(msg)
    IN SeqRange(c.peers) \ {src}

\* the node's state after a handler invocation that ended in st
Commit(n, st, op, arg) ==
    /\ peers' = [peers EXCEPT ![n] = st.peers]
    /\ consensus_map' = [consensus_map EXCEPT ![n] = st.cm]
    /\ word_list' = [word_list EXCEPT ![n] = st.wl]
    /\ nextId' = st.nid
    /\ written' = [written EXCEPT ![n] = @ \cup
                       { [ id |-> w.id, index |-> w.index, value |-> w.value, op |-> op ]
                         : w \in st.writes }]
    /\ started' = IF op = "start_root" /\ arg.id \in DOMAIN st.cm
                  THEN started \cup {[ id |-> arg.id, node |-> n, value |-> arg.value ]}
                  ELSE started
    /\ last' = [ op |-> op, node |-> n, arg |-> arg, sent |-> st.sent,
                 log |-> st.log, up |-> st.up, recs |-> st.recs,
                 raised |-> st.raised,
                 dup |-> (last.op = op /\ last.node = n /\ last.arg = arg) ]

\* console: consensus <idx> <word>
StartRoot(n, index, value) ==
    /\ n \in running
    /\ roots < MaxRoots
    /\ \E su \in SampleOf(n), pu \in SamplesOf(n, RootPeers(Local(n)) \ {n}) :
          LET st == start_root_consensus(Local(n), index, value, su, pu)
          IN /\ Commit(n, st, "start_root",
                       [ id |-> nextId, src |-> NoPeer, index |-> index, value |-> value ])
             /\ net' = net \cup st.sent
    /\ roots' = roots + 1
    /\ UNCHANGED <<running, lie_mode, lie_rate, forged, ds, dret, gossipVars>>

\* _handle_udp on a CONSENSUS datagram in flight
Deliver(d) ==
    /\ d \in net
    /\ d.dst \in running
    /\ \E su \in SampleOf(d.dst),
          pu \in SamplesOf(d.dst, ChildPeers(d.dst, d.msg, d.src)) :
          LET st == handle_consensus(Local(d.dst), d.msg, d.src, su, pu)
          IN /\ Commit(d.dst, st, "handle_consensus",
                       [ id |-> d.msg.id, src |-> d.src, index |-> d.msg.index,
                         value |-> d.msg.value ])
             /\ net' = (net \ {d}) \cup st.sent
    /\ UNCHANGED <<running, lie_mode, lie_rate, roots, forged, ds, dret, gossipVars>>

\* A CONSENSUS datagram from outside the fleet's own sends: any host may send
\* one.  For an id the receiver already holds, only the source and the value
\* are read, so the other fields are left as the stored ones.
ForgedSources == {1, 2, Outsider}
ForgedPeerLists == {<<1>>, <<1, 2>>}
ForgedIndices == {0}
ForgedLevels == {0, 1}
ForgedReporters == {NoPeer, 2}

\* the ids some store holds, and the forged id no store holds yet (ids are
\* opaque: which unused one a sender makes up is immaterial)
HeldIds == UNION { DOMAIN consensus_map[n] : n \in Node }
UnusedForgedIds ==
    LET free == ForgedIds \ HeldIds
    IN IF free = {} THEN {} ELSE { CHOOSE i \in free : \A j \in free : i <= j }

ForgedMsgs(n, src) ==
    { [ id |-> c.id, omlevel |-> c.omlevel, initiator |-> c.initiator,
        peers |-> c.peers, index |-> c.index, value |-> v,
        parentid |-> c.parentid, reporter |-> c.reporter, default_value |-> v ]
      : c \in { consensus_map[n][i] : i \in DOMAIN consensus_map[n] }, v \in Words }
    \cup
    { [ id |-> i, omlevel |-> l, initiator |-> src, peers |-> ps, index |-> x,
        value |-> v, parentid |-> p, reporter |-> r, default_value |-> v ]
      : i \in (HeldIds \cup UnusedForgedIds) \ DOMAIN consensus_map[n],
        l \in ForgedLevels,
        ps \in ForgedPeerLists, x \in ForgedIndices, v \in Words,
        p \in {NoId} \cup ForgedIds \cup HeldIds,
        r \in ForgedReporters }

\* _handle_udp on a CONSENSUS datagram that arrives from src
ReceiveForged(n, src, msg) ==
    /\ n \in running
    /\ forged < MaxForged
    /\ \E su \in SampleOf(n), pu \in SamplesOf(n, ChildPeers(n, msg, src)) :
       LET st == handle_consensus(Local(n), msg, src, su, pu)
       IN /\ Commit(n, st, "handle_consensus",
                    [ id |-> msg.id, src |-> src, index |-> msg.index, value |-> msg.value ])
          /\ net' = net \cup st.sent
    /\ forged' = forged + 1
    /\ UNCHANGED <<running, lie_mode, lie_rate, roots, ds, dret, gossipVars>>

\* ----------------------------------------------- one ConsensusState alone
NotCalled == <<-2>>

DsMsg ==
    [ id |-> 11, omlevel |-> 0, initiator |-> 1, peers |-> <<1, 2>>,
      index |-> 0, value |-> EmptyStr, parentid |-> NoId, reporter |-> NoPeer,
      default_value |-> EmptyStr ]

\* state.record_report(reporter, value)
DsRecord(k, v) ==
    /\ dret = NotCalled
    /\ Len(ds.reports) < MaxReports
    /\ ds' = record_report(ds, k, v)
    /\ UNCHANGED <<dret, fleetVars, gossipVars>>

\* state.decide()
DsDecide ==
    /\ dret = NotCalled
    /\ LET d == decide(ds)
       IN ds' = d.c /\ dret' = d.result
    /\ UNCHANGED <<fleetVars, gossipVars>>

\* ------------------------------------------- event loop, gossip, console
\* The keys another node can be known under, one key whose port lies outside
\* 0..65535 (int() accepts it, sendto raises OverflowError on it), the
\* addresses GOSSIP datagrams arrive from and the host/port their payload names.
BadPortKey == MaxPeers + 2
GSources == {2, 3}
GOrigins == {2, 3, BadPortKey}
Gids == {21, 22}
KnownSizes == {0, 2, MaxPeers}
Ticks == {1, 119, 299}

PortOk(k) == k # BadPortKey

\* a dict cut down to the keys in K
Restrict(d, K) == [ k \in K |-> d[k] ]

\* mark_gossip_seen forgetting an id after StaleAfter seconds
mark_gossip_seen_early(cache, gid, now) ==
    LET kept == Restrict(cache, { k \in DOMAIN cache : now - cache[k] < StaleAfter })
    IN IF gid \in DOMAIN kept THEN [ cache |-> kept, seen |-> TRUE ]
       ELSE [ cache |-> (gid :> now) @@ kept, seen |-> FALSE ]

\* mark_gossip_seen: the cache afterwards and the value returned
mark_gossip_seen(cache, gid, now) ==
    LET kept == Restrict(cache, { k \in DOMAIN cache : now - cache[k] < GossipTtl })
    IN IF gid \in DOMAIN kept THEN [ cache |-> kept, seen |-> TRUE ]
       ELSE [ cache |-> (gid :> now) @@ kept, seen |-> FALSE ]

\* node.add_peer on the dict with last_seen: a new record or a refreshed one
add_peer_at(ps, key, now) == (key :> now) @@ ps

\* the lists random.shuffle(peers)[:Fanout] can give, as the set of peers in
\* each (the order inside decides nothing but where a raise cuts the loop)
Pick(S) ==
    LET n == IF Cardinality(S) < Fanout THEN Cardinality(S) ELSE Fanout
    IN { T \in SUBSET S : Cardinality(T) = n }

\* forward_gossip without the filter on the datagram's source
ForwardListsUnfiltered(known, exclude) == { SetToSeq(T) : T \in Pick(known) }

\* forward_gossip: the targets, in sending order, that peers[:5] can hold
\* after the shuffle and the filter
ForwardLists(known, exclude) == { SetToSeq(T) : T \in Pick(known \ {exclude}) }

\* the sends made before sendto raises OverflowError on a key with a bad
\* port: any of the others may have come first
SentBeforeRaise(targets) ==
    IF \A i \in DOMAIN targets : PortOk(targets[i]) THEN {targets}
    ELSE { SetToSeq(T) : T \in SUBSET { k \in SeqRange(targets) : PortOk(k) } }

Raises(targets) == \E i \in DOMAIN targets : ~PortOk(targets[i])

\* what forward_gossip can do when called from handle_gossip: the sends
\* made, and whether an exception left the loop
ForwardOutcomes(known, exclude) ==
    UNION { { [ forwards |-> sent, raised |-> Raises(targets) ]
              : sent \in SentBeforeRaise(targets) }
            : targets \in ForwardLists(known, exclude) }

\* if not seen: self.forward_gossip(msg, addr)
GossipOutcomes(seen, known, exclude) ==
    IF seen THEN { [ forwards |-> <<>>, raised |-> FALSE ] }
    ELSE ForwardOutcomes(known, exclude)

NoGLast ==
    [ op |-> "none", gid |-> 0, src |-> NoPeer, origin |-> NoPeer, at |-> NoTime,
      first_at |-> NoTime, seen |-> FALSE, known |-> {}, forwards |-> <<>>,
      reply |-> FALSE, raised |-> FALSE, shown |-> {}, existing |-> FALSE ]

\* the handlers of an iteration run when select returns, at most
\* SelectTimeout after the iteration's now (their own running time is taken
\* as nothing)
InIteration ==
    /\ alive
    /\ loop_at # NoTime
    /\ clock - loop_at <= SelectTimeout

\* time passes
Tick(d) ==
    /\ ticks < MaxTicks
    /\ clock' = clock + d
    /\ ticks' = ticks + 1
    /\ UNCHANGED <<alive, loop_at, last_cleanup, last_heartbeat, gpeers,
                   gossip_cache, gossips, gfirst, glast, fleetVars, ds, dret>>

\* cleanup_peers at time now
cleanup_peers(ps, now) ==
    Restrict(ps, { k \in DOMAIN ps : ~(now - ps[k] > StaleAfter) })

\* the top of a loop iteration of run(): cleanup and heartbeat when due.
\* heartbeat's send_gossip catches OSError only, so the OverflowError of a
\* bad port leaves run()
LoopTop ==
    /\ alive
    /\ loop_at # clock
    /\ LET now == clock
           doClean == now - last_cleanup > CleanupEvery
           ps == IF doClean THEN cleanup_peers(gpeers, now) ELSE gpeers
           doBeat == now - last_heartbeat > HeartbeatEvery
       IN /\ gpeers' = ps
          /\ last_cleanup' = IF doClean THEN now ELSE last_cleanup
          /\ \E crash \in { doBeat /\ Raises(SetToSeq(T)) : T \in Pick(DOMAIN ps) } :
                   /\ alive' = ~crash
                   /\ last_heartbeat' = IF doBeat /\ ~crash THEN now ELSE last_heartbeat
                   /\ glast' = [NoGLast EXCEPT !.op = "loop", !.at = now,
                                               !.raised = crash]
          /\ loop_at' = now
    /\ UNCHANGED <<clock, gossip_cache, ticks, gossips, gfirst, fleetVars, ds, dret>>

\* _handle_udp on a GOSSIP datagram from src with id gid whose payload names
\* origin: handle_gossip
ReceiveGossip(src, gid, origin) ==
    /\ InIteration
    /\ gossips < MaxGossip
    /\ LET m == mark_gossip_seen(gossip_cache, gid, clock)
           ps == add_peer_at(gpeers, origin, clock)
       IN /\ gossip_cache' = m.cache
          /\ gpeers' = ps
          /\ gfirst' = IF gfirst[gid] = NoTime THEN [gfirst EXCEPT ![gid] = clock]
                       ELSE gfirst
          /\ \E out \in GossipOutcomes(m.seen, DOMAIN ps, src) :
                glast' = [ op |-> "gossip", gid |-> gid, src |-> src, origin |-> origin,
                           at |-> clock, first_at |-> gfirst[gid], seen |-> m.seen,
                           known |-> DOMAIN ps, forwards |-> out.forwards,
                           reply |-> ~out.raised, raised |-> out.raised,
                           shown |-> {}, existing |-> origin \in DOMAIN gpeers ]
    /\ gossips' = gossips + 1
    /\ UNCHANGED <<clock, alive, loop_at, last_cleanup, last_heartbeat, ticks,
                   fleetVars, ds, dret>>

\* _handle_udp on a GOSSIP_REPLY datagram from src
ReceiveReply(src) ==
    /\ InIteration
    /\ gossips < MaxGossip
    /\ gpeers' = add_peer_at(gpeers, src, clock)
    /\ glast' = [NoGLast EXCEPT !.op = "reply", !.src = src, !.at = clock]
    /\ gossips' = gossips + 1
    /\ UNCHANGED <<clock, alive, loop_at, last_cleanup, last_heartbeat, gossip_cache,
                   ticks, gfirst, fleetVars, ds, dret>>

\* console: peers.  One line for every record of node.peers, with its age
CliPeers ==
    /\ InIteration
    /\ glast.op # "peers"
    /\ glast' = [NoGLast EXCEPT !.op = "peers", !.at = clock,
                    !.shown = { [ key |-> k, age |-> clock - gpeers[k] ] : k \in DOMAIN gpeers }]
    /\ UNCHANGED <<clock, alive, loop_at, last_cleanup, last_heartbeat, gpeers,
                   gossip_cache, ticks, gossips, gfirst, fleetVars, ds, dret>>

\* ------------------------------------------------------------------- specs
NoLast ==
    [ op |-> "none", node |-> 0,
      arg |-> [ id |-> NoId, src |-> NoPeer, index |-> 0, value |-> EmptyStr ],
      sent |-> {}, log |-> {}, up |-> {}, recs |-> {}, raised |-> FALSE,
      dup |-> FALSE ]

InitCommon ==
    /\ word_list = [ n \in Node |-> [ i \in 1..WordSlots |-> EmptyStr ] ]
    /\ consensus_map = [ n \in Node |-> <<>> ]
    /\ net = {}
    /\ nextId = 1
    /\ roots = 0
    /\ forged = 0
    /\ last = NoLast
    /\ written = [ n \in Node |-> {} ]
    /\ started = {}
    /\ ds = ConsensusState(DsMsg)
    /\ dret = NotCalled

\* the event loop's fields after construction
InitLoop ==
    /\ clock = Epoch
    /\ alive = TRUE
    /\ loop_at = NoTime
    /\ last_cleanup = 0
    /\ last_heartbeat = 0
    /\ gpeers = <<>>
    /\ gossip_cache = <<>>
    /\ ticks = 0
    /\ gossips = 0
    /\ gfirst = [ g \in Gids |-> NoTime ]
    /\ glast = NoGLast

\* PeerNode.__init__
Init ==
    /\ InitCommon
    /\ InitLoop
    /\ running = {1}
    /\ peers = [ n \in Node |-> {} ]
    /\ lie_mode = [ n \in Node |-> FALSE ]
    /\ lie_rate = [ n \in Node |-> 100 ]

\* A fleet after gossip has settled: the first k nodes know each other, and
\* at most one of them was switched to lying from its console.
InitFleet ==
    /\ InitCommon
    /\ InitLoop
    /\ \E k \in 1..NumNodes :
          /\ running = 1..k
          /\ peers = [ n \in Node |-> IF n <= k THEN (1..k) \ {n} ELSE {} ]
    /\ \E liar \in {0} \cup running, rate \in LieRates :
          /\ lie_mode = [ n \in Node |-> n = liar ]
          /\ lie_rate = [ n \in Node |-> IF n = liar THEN rate ELSE 100 ]

\* One node right after construction, or after its first loop iteration and
\* the GOSSIP_REPLY datagrams of k peers handled in it.
InitGossip ==
    /\ InitCommon
    /\ running = {1}
    /\ peers = [ n \in Node |-> {} ]
    /\ lie_mode = [ n \in Node |-> FALSE ]
    /\ lie_rate = [ n \in Node |-> 100 ]
    /\ clock = Epoch
    /\ alive = TRUE
    /\ gossip_cache = <<>>
    /\ ticks = 0
    /\ gossips = 0
    /\ gfirst = [ g \in Gids |-> NoTime ]
    /\ glast = NoGLast
    /\ \E k \in KnownSizes :
          /\ gpeers = [ a \in 2..(k + 1) |-> Epoch ]
          /\ loop_at = IF k = 0 THEN NoTime ELSE Epoch
          /\ last_cleanup = IF k = 0 THEN 0 ELSE Epoch
          /\ last_heartbeat = IF k = 0 THEN 0 ELSE Epoch

DoTick == \E d \in Ticks : Tick(d)
DoReceiveGossip ==
    \E src \in GSources, gid \in Gids, origin \in GOrigins : ReceiveGossip(src, gid, origin)
DoReceiveReply == \E src \in GSources : ReceiveReply(src)

DoStartRoot ==
    /\ roots < MaxRoots
    /\ \E n \in running, index \in Indices, value \in Words : StartRoot(n, index, value)
DoDeliver == \E d \in net : Deliver(d)
DoReceiveForged ==
    /\ forged < MaxForged
    /\ \E n \in running, src \in ForgedSources :
          \E msg \in ForgedMsgs(n, src) : ReceiveForged(n, src, msg)
DoDsRecord == \E k \in Addr, v \in Values : DsRecord(k, v)

\* with one node running no datagram it sends is ever received, so the
\* only datagrams handled are those that arrive from outside
Next == DoStartRoot \/ DoReceiveForged

NextFleet == DoStartRoot \/ DoDeliver

NextDecide == DoDsRecord \/ DsDecide

NextGossip == DoTick \/ LoopTop \/ DoReceiveGossip \/ DoReceiveReply \/ CliPeers

\* one node's event loop under GOSSIP traffic, console commands and time
SpecGossip == InitGossip /\ [][NextGossip]_vars

\* one node that receives whatever CONSENSUS datagram any host sends it
Spec == Init /\ [][Next]_vars

\* the fleet on its own: every datagram sent is received, none is forged
SpecFleet == InitFleet /\ [][NextFleet]_vars /\ WF_vars(DoDeliver)

\* ConsensusState on its own
SpecDecide == Init /\ [][NextDecide]_vars

\* ------------------------------------------------------------------ claims
Honest(n) == ~lie_mode[n]
Liars == { n \in running : lie_mode[n] }

\* the k running nodes all know each other
FleetOf(k) ==
    /\ Cardinality(running) = k
    /\ \A n \in running : peers[n] \cup {n} = running

\* every datagram sent has been received
Quiet == \A d \in net : d.dst \notin running

\* the roots a node started itself, as <<node, id>>
OwnRoots ==
    { <<n, i>> \in Node \X HeldIds :
        /\ i \in DOMAIN consensus_map[n]
        /\ consensus_map[n][i].parentid = NoId
        /\ consensus_map[n][i].initiator = n
        /\ i \notin ForgedIds }

Inst(n, i) == consensus_map[n][i]

\* C1: four honest nodes that all know each other, no datagram lost: once
\* everything sent for a root started with an index in 0..4 has been
\* received, every node holds the root's value in the targeted slot.
C1_FourHonestConverge ==
    (FleetOf(4) /\ Liars = {} /\ Quiet) =>
        \A r \in OwnRoots :
            InRange(Inst(r[1], r[2]).index) =>
                \A q \in running :
                    word_list[q][Inst(r[1], r[2]).index + 1]
                        = Get(Inst(r[1], r[2]).reports, r[1])

\* C2: three honest nodes that all know each other, no datagram lost: once
\* everything sent for a root started on slot 2 has been received, each of
\* the three nodes holds the root's value in slot 2.
C2_ThreeHonestConverge ==
    (FleetOf(3) /\ Liars = {} /\ Quiet) =>
        \A r \in OwnRoots :
            Inst(r[1], r[2]).index = 2 =>
                \A q \in running :
                    word_list[q][3] = Get(Inst(r[1], r[2]).reports, r[1])

LoneStart(n) ==
    /\ last'.op = "start_root" /\ last'.node = n
    /\ roots' = roots + 1
    /\ peers[n] \subseteq {n}
    /\ InRange(last'.arg.index)

\* what the start leaves behind: a level-0 root whose one report is the
\* node's chosen value, that value in the targeted slot, the other slots
\* and the network as they were
LoneRootMade(n) ==
    /\ nextId \in DOMAIN consensus_map'[n]
    /\ LET c == consensus_map'[n][nextId]
       IN /\ c.omlevel = 0 /\ c.parentid = NoId /\ c.peers = <<n>>
          /\ Len(c.reports) = 1 /\ c.reports[1][1] = n
          /\ c.reports[1][2] \in { choose_value(n, last'.arg.value, u) : u \in Samples }
          /\ DecideValue(c.reports) = c.reports[1][2]
          /\ word_list'[n] = [word_list[n] EXCEPT ![c.index + 1] = c.reports[1][2]]
          /\ c.index = last'.arg.index
          /\ net' = net

\* C4, as stated: a lone node's start_root with an index in 0..4 makes a
\* level-0 root whose resolved value is the self-chosen value and writes that
\* value to the slot, the other four slots unchanged.
C4_LoneResolved ==
    [][ \A n \in running : LoneStart(n) =>
            /\ LoneRootMade(n)
            /\ consensus_map'[n][nextId].resolved = consensus_map'[n][nextId].reports[1][2]
      ]_vars

\* a lone node, lying, has started a root and holds the faulty value in the slot
C4_Witness ==
    /\ last.op = "start_root" /\ peers[last.node] \subseteq {last.node}
    /\ InRange(last.arg.index)
    /\ lie_mode[last.node]
    /\ word_list[last.node][last.arg.index + 1] = FaultyAttack

\* the last handler was node n's start_root, run with an empty membership set
ZeroKnownStart(n) ==
    last.op = "start_root" /\ last.node = n /\ peers[n] = {}

\* C5, as stated: start_root with zero known peers reports the no-peers error
\* and emits no datagram.
C5_NoPeersError ==
    \A n \in running : ZeroKnownStart(n) =>
        "no_peers" \in last.log /\ last.sent = {}

\* C5, amended: start_root with zero known peers emits no datagram and
\* reports no error: the participant set always holds the local node, so
\* the root is created and the start is logged.
C5_ZeroKnownPeers ==
    \A n \in running : ZeroKnownStart(n) =>
        /\ last.sent = {}
        /\ last.log = {"started"}
        /\ last.arg.id \in DOMAIN consensus_map[n]

C5_Witness == \E n \in running : ZeroKnownStart(n) /\ last.arg.index = 5

\* the <<key, value>> items of a dict, their order forgotten
ItemSet(d) == { d[i] : i \in DOMAIN d }

CountOf(items, v) == Cardinality({ it \in items : it[2] = v })

\* the most frequent value of a reports map, the smallest str among equals
PluralitySmallest(items) ==
    IF items = {} THEN NoValue
    ELSE LET vals == { it[2] : it \in items }
             top == { v \in vals : \A u \in vals : CountOf(items, u) <= CountOf(items, v) }
         IN CHOOSE w \in top : \A x \in top : x = w \/ StrLess(w, x)

\* C6: decide on an unresolved instance returns the plurality value of its
\* reports, ties broken by the smallest str; the result is a function of the
\* reports map alone, whatever order the reports came in; with no report it
\* returns nothing (and resolves nothing).
C6_DecidePlurality ==
    dret # NotCalled =>
        /\ dret = PluralitySmallest(ItemSet(ds.reports))
        /\ ds.resolved = dret
        /\ (ds.reports = <<>>) <=> (dret = NoValue)

\* decide has run on a tie in which the value reported first is not the
\* smallest of the winners
C6_Witness ==
    /\ dret # NotCalled
    /\ Len(ds.reports) >= 3
    /\ LET items == ItemSet(ds.reports)
           first == ds.reports[1][2]
       IN /\ CountOf(items, first) = CountOf(items, dret)
          /\ first # dret

\* C7: once an instance's resolved is set it never changes, whatever reports,
\* duplicates, child decisions or decide calls come later.
C7_ResolvedStable ==
    [][ \A n \in Node : \A i \in DOMAIN consensus_map[n] :
            Inst(n, i).resolved # NoValue =>
                /\ i \in DOMAIN consensus_map'[n]
                /\ consensus_map'[n][i].resolved = Inst(n, i).resolved
      ]_vars

\* an instance whose reports would now decide otherwise has kept its decision
C7_Witness ==
    \E n \in Node : \E i \in DOMAIN consensus_map[n] :
        /\ Inst(n, i).resolved # NoValue
        /\ Inst(n, i).resolved # DecideValue(Inst(n, i).reports)

\* C8: every instance has at most as many report keys as peers.
C8_ReportsWithinPeers ==
    \A n \in Node : \A i \in DOMAIN consensus_map[n] :
        Len(Inst(n, i).reports) <= Len(Inst(n, i).peers)

\* C9: an instance with as many report keys as peers is complete, and the
\* next propagate_result_upwards call on it leaves it resolved.
C9_CompleteWhenCountsMatch ==
    [][ \A n \in Node : \A i \in DOMAIN consensus_map[n] :
            Len(Inst(n, i).reports) = Len(Inst(n, i).peers) =>
                /\ is_complete(Inst(n, i))
                /\ (last'.node = n /\ i \in last'.up) =>
                       consensus_map'[n][i].resolved # NoValue
      ]_vars

\* C10: subconsensus_launched is no larger than peers, and the store holds a
\* child (parentid the instance, reporter the reporter) for each reporter in it.
C10_LaunchedHaveChildren ==
    \A n \in Node : \A i \in DOMAIN consensus_map[n] :
        /\ Cardinality(Inst(n, i).subconsensus_launched) <= Len(Inst(n, i).peers)
        /\ \A r \in Inst(n, i).subconsensus_launched :
              \E j \in DOMAIN consensus_map[n] :
                  Inst(n, j).parentid = i /\ Inst(n, j).reporter = r

\* C11: a resolved value is one of the values the instance's reports hold
\* now, also after a reporter has reported again with another value.
C11_ResolvedAmongReports ==
    \A n \in Node : \A i \in DOMAIN consensus_map[n] :
        Inst(n, i).resolved # NoValue =>
            Inst(n, i).resolved \in { Inst(n, i).reports[k][2] : k \in DOMAIN Inst(n, i).reports }

\* C12: handling the same CONSENSUS datagram (same id, source and value) a
\* second time leaves the node's store and word array as the first handling
\* left them, creates no instance and sends nothing.
C12_DuplicateIdempotent ==
    [][ \A n \in Node :
            (last'.op = "handle_consensus" /\ last'.node = n /\ last'.dup) =>
                /\ consensus_map'[n] = consensus_map[n]
                /\ word_list'[n] = word_list[n]
                /\ nextId' = nextId
                /\ last'.sent = {}
      ]_vars

\* a datagram that completed its instance has been handled twice in a row
C12_Witness ==
    /\ last.op = "handle_consensus" /\ last.dup
    /\ last.arg.id \in DOMAIN consensus_map[last.node]
    /\ Inst(last.node, last.arg.id).resolved # NoValue

\* C13: once a GOSSIP with id g has been handled at time t, a GOSSIP with id
\* g handled later and before t + 300 s is forwarded to nobody.
C13_ForwardOncePerTtl ==
    ( /\ glast.op = "gossip"
      /\ glast.first_at # NoTime
      /\ glast.at < glast.first_at + GossipTtl )
    => glast.forwards = <<>>

\* a GOSSIP was handled 299 s after the first with its id, with peers other
\* than its source known, and went to nobody
C13_Witness ==
    /\ glast.op = "gossip"
    /\ glast.first_at # NoTime
    /\ glast.at = glast.first_at + GossipTtl - 1
    /\ glast.known \ {glast.src} # {}
    /\ glast.forwards = <<>>

\* C14: a GOSSIP with an id not yet seen is forwarded to at most 5 peers,
\* all known and no two the same, and never to the address it came from.
C14_ForwardFanout ==
    (glast.op = "gossip" /\ ~glast.seen) =>
        /\ Len(glast.forwards) <= Fanout
        /\ \A i, j \in DOMAIN glast.forwards : i # j => glast.forwards[i] # glast.forwards[j]
        /\ SeqRange(glast.forwards) \subseteq glast.known
        /\ glast.src \notin SeqRange(glast.forwards)

\* a new GOSSIP from a known peer, with more than Fanout other peers known,
\* went to Fanout of them
C14_Witness ==
    /\ glast.op = "gossip" /\ ~glast.seen
    /\ glast.src \in glast.known
    /\ Cardinality(glast.known \ {glast.src}) > Fanout
    /\ Len(glast.forwards) = Fanout

\* C15: the peers command never shows a record whose last-seen age is above
\* 120 s.
C15_StaleNeverShown ==
    glast.op = "peers" => \A e \in glast.shown : e.age <= StaleAfter

\* C20: whatever datagrams a node has received, its event loop goes on.
C20_LoopSurvives == alive

\* C16: for a root whose index is outside 0..4, neither start_root nor the
\* root's completion writes a word slot: no write is ever made for it and the
\* handlers that start or reach it leave the word array as it was; decide
\* still runs, so the root is resolved once a propagate call finds it complete.
C16_OutOfRangeNoWrite ==
    [][ \A n \in Node : \A i \in DOMAIN consensus_map'[n] :
            LET c == consensus_map'[n][i]
            IN (c.parentid = NoId /\ (c.index < 0 \/ c.index >= WordSlots)) =>
                  /\ \A w \in written'[n] : w.id # i
                  /\ (last'.node = n /\ (last'.arg.id = i \/ i \in last'.up))
                        => word_list'[n] = word_list[n]
                  /\ (last'.node = n /\ i \in last'.up /\ is_complete(c))
                        => c.resolved # NoValue
      ]_vars

\* a root with index -1 or 5 has been completed and resolved by the last handler
C16_Witness ==
    \E n \in Node : \E i \in DOMAIN consensus_map[n] :
        /\ Inst(n, i).parentid = NoId
        /\ (Inst(n, i).index < 0 \/ Inst(n, i).index >= WordSlots)
        /\ last.node = n /\ i \in last.up
        /\ Inst(n, i).resolved # NoValue
        /\ word_list[n] = [ k \in 1..WordSlots |-> EmptyStr ]

\* a root of node n's store that some peer of its list has not reported to
IncompleteRoot(n, i) ==
    /\ Inst(n, i).parentid = NoId
    /\ \E p \in SeqRange(Inst(n, i).peers) : p \notin Keys(Inst(n, i).reports)

\* C17, as stated: a root that has not become complete has not bubbled up,
\* and no word slot has been written on its behalf on that node.
C17_IncompleteRootNoWrite ==
    \A n \in Node : \A i \in DOMAIN consensus_map[n] :
        IncompleteRoot(n, i) =>
            /\ Inst(n, i).resolved = NoValue
            /\ \A w \in written[n] : w.id # i

\* C17, amended: a root that has not become complete has not bubbled up, and
\* the only word-slot write made on its behalf is the one start_root makes on
\* the node that initiated it.
C17_IncompleteRootNoBubble ==
    \A n \in Node : \A i \in DOMAIN consensus_map[n] :
        IncompleteRoot(n, i) =>
            /\ Inst(n, i).resolved = NoValue
            /\ \A w \in written[n] :
                  w.id = i => (w.op = "start_root" /\ Inst(n, i).initiator = n)

\* a report has just come in for a root that is still incomplete and whose
\* slot its initiator wrote when it started it
C17_Witness ==
    \E n \in Node : \E i \in DOMAIN consensus_map[n] :
        /\ IncompleteRoot(n, i)
        /\ last.op = "handle_consensus" /\ last.node = n /\ last.arg.id = i
        /\ \E w \in written[n] : w.id = i

\* C18: whenever a non-root instance is created in a node's store, an
\* instance with id equal to its parentid is already in that store.
C18_ParentPresent ==
    [][ \A n \in Node : \A i \in DOMAIN consensus_map'[n] \ DOMAIN consensus_map[n] :
            consensus_map'[n][i].parentid # NoId =>
                consensus_map'[n][i].parentid \in DOMAIN consensus_map[n]
      ]_vars

\* C19: a node's store holds, for each parent id and each reporter, at most
\* one instance with that parentid and that reporter.
C19_OneChildPerReporter ==
    \A n \in Node : \A i, j \in DOMAIN consensus_map[n] :
        ( /\ Inst(n, i).parentid # NoId
          /\ Inst(n, i).reporter # NoPeer
          /\ Inst(n, i).parentid = Inst(n, j).parentid
          /\ Inst(n, i).reporter = Inst(n, j).reporter )
        => i = j

\* the handle_consensus step just taken by node n reached launch_subconsensus
\* for the instance i and the reporter r, not yet launched there, with
\* somebody left in the instance's peer list once r is removed
SpawnStep(n, i, r) ==
    /\ last'.op = "handle_consensus" /\ last'.node = n
    /\ last'.arg.id = i /\ last'.arg.src = r
    /\ consensus_map'[n][i].omlevel > 0
    /\ (i \in DOMAIN consensus_map[n] => r \notin Inst(n, i).subconsensus_launched)
    /\ Without(consensus_map'[n][i].peers, r) # <<>>

\* C21: launch_subconsensus on a parent of level > 0, for a reporter not yet
\* launched and with other peers left, adds exactly one child instance (fresh
\* id, level one less, the parent's initiator and index, the parent's peers
\* without the reporter, parentid the parent, reporter the reporter), sends a
\* CONSENSUS datagram for it to each of those peers, and records the node's
\* own value in the parent's reports under the node's own key.
C21_SpawnCreatesChild ==
    [][ \A n \in Node : \A i \in DOMAIN consensus_map'[n] : \A r \in Addr :
          SpawnStep(n, i, r) =>
            LET parent == consensus_map'[n][i]
                ps == Without(parent.peers, r)
                new == (DOMAIN consensus_map'[n] \ DOMAIN consensus_map[n]) \ {i}
            IN /\ Cardinality(new) = 1
               /\ \A j \in new :
                    /\ j \notin HeldIds
                    /\ consensus_map'[n][j].omlevel = parent.omlevel - 1
                    /\ consensus_map'[n][j].initiator = parent.initiator
                    /\ consensus_map'[n][j].index = parent.index
                    /\ consensus_map'[n][j].peers = ps
                    /\ consensus_map'[n][j].parentid = i
                    /\ consensus_map'[n][j].reporter = r
                    /\ \A k \in DOMAIN ps :
                         Cardinality({ d \in last'.sent :
                                         d.dst = ps[k] /\ d.msg.id = j }) = 1
               /\ n \in Keys(parent.reports)
      ]_vars

\* a level-1 instance has just taken a first report from a reporter with
\* other peers left
C21_Witness ==
    /\ last.op = "handle_consensus"
    /\ last.arg.id \in DOMAIN consensus_map[last.node]
    /\ Inst(last.node, last.arg.id).omlevel > 0
    /\ last.arg.src \in Inst(last.node, last.arg.id).subconsensus_launched
    /\ Without(Inst(last.node, last.arg.id).peers, last.arg.src) # <<>>
    /\ ~last.dup

\* the handle_consensus step just taken by node n reached launch_subconsensus
\* for the instance i and the reporter r, not yet launched there, and r is
\* the only peer of the instance
LoneReporterStep(n, i, r) ==
    /\ last'.op = "handle_consensus" /\ last'.node = n
    /\ last'.arg.id = i /\ last'.arg.src = r
    /\ consensus_map'[n][i].omlevel > 0
    /\ (i \in DOMAIN consensus_map[n] => r \notin Inst(n, i).subconsensus_launched)
    /\ Without(consensus_map'[n][i].peers, r) = <<>>

\* C22: launch_subconsensus does nothing when the parent's peers without the
\* reporter are none: the reporter is not marked launched, the parent's
\* reports stay as handle_consensus recorded them, no instance is added or
\* changed and nothing is sent.
C22_EmptyPeersNoEffect ==
    [][ \A n \in Node : \A i \in DOMAIN consensus_map'[n] : \A r \in Addr :
          LoneReporterStep(n, i, r) =>
            LET before == IF i \in DOMAIN consensus_map[n] THEN Inst(n, i)
                          ELSE [consensus_map'[n][i] EXCEPT
                                  !.reports = <<>>, !.subconsensus_launched = {}]
            IN /\ consensus_map'[n][i].subconsensus_launched =
                      before.subconsensus_launched
               /\ consensus_map'[n][i].reports =
                      record_report(before, r, last'.arg.value).reports
               /\ DOMAIN consensus_map'[n] = DOMAIN consensus_map[n] \cup {i}
               /\ \A j \in DOMAIN consensus_map[n] \ {i} :
                      consensus_map'[n][j] = Inst(n, j)
               /\ last'.sent = {}
      ]_vars

\* an instance of level > 0 whose only peer is the reporter has just taken
\* that reporter's first report
C22_Witness ==
    /\ last.op = "handle_consensus"
    /\ last.arg.id \in DOMAIN consensus_map[last.node]
    /\ Inst(last.node, last.arg.id).omlevel > 0
    /\ Without(Inst(last.node, last.arg.id).peers, last.arg.src) = <<>>
    /\ Keys(Inst(last.node, last.arg.id).reports) = {last.arg.src}
    /\ ~last.dup

\* a start_root step of node n with one or two other participants, so that
\* the root's level is 0
SmallFleetStart(n) ==
    /\ last'.op = "start_root" /\ last'.node = n
    /\ roots' = roots + 1
    /\ Cardinality(RootPeers(Local(n))) \in {2, 3}
    /\ OmLevel(Cardinality(RootPeers(Local(n)))) = 0

\* C23: start_root_consensus writes the slot at once only for a root of
\* level > 0 or a lone node; with one or two other participants (level 0) it
\* leaves the word array as it was, and the slot is written only by the
\* handler that completes the root.
C23_SmallFleetNoEagerWrite ==
    [][ \A n \in running : SmallFleetStart(n) =>
            /\ word_list'[n] = word_list[n]
            /\ \A w \in written'[n] : w.op # "start_root"
      ]_vars

\* a node that knows one or two others has started a root for a slot in 0..4
C23_Witness ==
    /\ last.op = "start_root"
    /\ Cardinality(peers[last.node] \cup {last.node}) \in {2, 3}
    /\ InRange(last.arg.index)
    /\ last.arg.id \in DOMAIN consensus_map[last.node]
    /\ Inst(last.node, last.arg.id).omlevel = 0

\* the handle_consensus step just taken by node n on a datagram from s
\* completed the instance j, which has a parentid other than itself and a
\* stored reporter, and j decided
ChildCompletes(n, j, s) ==
    /\ last'.op = "handle_consensus" /\ last'.node = n
    /\ last'.arg.id = j /\ last'.arg.src = s
    /\ j \in last'.up
    /\ consensus_map'[n][j].parentid \notin {NoId, j}
    /\ consensus_map'[n][j].reporter # NoPeer
    /\ is_complete(consensus_map'[n][j])
    /\ consensus_map'[n][j].resolved # NoValue

\* C24: when a child completes and decides d, a parent held in the store
\* gets d in its reports under the child's stored reporter, and nothing under
\* the key of the peer whose report completed the child; with the parent
\* missing from the store no other instance and no word slot changes.
C24_ChildReportsUnderReporter ==
    [][ \A n \in Node : \A j \in DOMAIN consensus_map'[n] : \A s \in Addr :
          ChildCompletes(n, j, s) =>
            LET child == consensus_map'[n][j]
                p == child.parentid
            IN IF p \in DOMAIN consensus_map[n]
               THEN /\ [ id |-> p, key |-> child.reporter, value |-> child.resolved ]
                          \in last'.recs
                    /\ child.reporter \in Keys(consensus_map'[n][p].reports)
                    /\ ~is_complete(consensus_map'[n][p]) =>
                          Get(consensus_map'[n][p].reports, child.reporter)
                             = child.resolved
                    /\ s # child.reporter =>
                          /\ \A r \in last'.recs : r.id = p => r.key # s
                          /\ s \notin Keys(Inst(n, p).reports)
                                => s \notin Keys(consensus_map'[n][p].reports)
               ELSE /\ \A k \in DOMAIN consensus_map[n] \ {j} :
                          consensus_map'[n][k] = Inst(n, k)
                    /\ word_list'[n] = word_list[n]
      ]_vars

\* a child whose stored reporter is not the peer that completed it has
\* decided, and its parent holds the decision under the stored reporter
C24_Witness ==
    /\ last.op = "handle_consensus" /\ ~last.dup
    /\ last.arg.id \in DOMAIN consensus_map[last.node]
    /\ LET child == Inst(last.node, last.arg.id)
       IN /\ child.parentid \notin {NoId, child.id}
          /\ child.parentid \in DOMAIN consensus_map[last.node]
          /\ child.parentid \in last.up
          /\ child.reporter \notin {NoPeer, last.arg.src}
          /\ child.resolved # NoValue
          /\ child.reporter \in Keys(Inst(last.node, child.parentid).reports)

\* C25: handle_gossip sends a GOSSIP_REPLY to the datagram's source when the
\* sender named in the payload was not in the membership dict before the
\* datagram, and sends none when it was already there.
C25_ReplyOnFirstContactOnly ==
    (glast.op = "gossip" /\ ~glast.raised) => (glast.reply <=> ~glast.existing)

\* a GOSSIP datagram naming a sender already in the membership dict has been
\* handled to the end
C25_Witness ==
    glast.op = "gossip" /\ ~glast.raised /\ glast.existing

\* the slot k of node n was set by the handler just run: by start_root for
\* its own index, or by a propagate call that found a root complete, for the
\* root's index and with the root's decision
SlotSetByRoot(n, k) ==
    /\ last'.node = n
    /\ \/ /\ last'.op = "start_root"
          /\ InRange(last'.arg.index) /\ k = last'.arg.index + 1
       \/ /\ last'.op = "handle_consensus"
          /\ \E i \in last'.up :
                /\ consensus_map'[n][i].parentid = NoId
                /\ is_complete(consensus_map'[n][i])
                /\ InRange(consensus_map'[n][i].index)
                /\ k = consensus_map'[n][i].index + 1
                /\ word_list'[n][k] = consensus_map'[n][i].resolved

\* C26: the word list has 5 slots at all times, all empty at first, and a
\* slot changes only in start_root_consensus or when a root instance (no
\* parentid) completes in propagate_result_upwards; the completion of any
\* other instance leaves every slot as it was.
C26_SlotsChangeAtRootOnly ==
    /\ \A n \in Node : word_list[n] = [ k \in 1..WordSlots |-> EmptyStr ]
    /\ [][ \A n \in Node :
             /\ DOMAIN word_list'[n] = 1..WordSlots
             /\ \A k \in 1..WordSlots :
                   word_list'[n][k] # word_list[n][k] => SlotSetByRoot(n, k)
         ]_vars

\* an instance with a parentid has completed and decided a word that no
\* slot of the node holds
C26_Witness ==
    /\ last.op = "handle_consensus"
    /\ \E i \in last.up :
          /\ Inst(last.node, i).parentid # NoId
          /\ is_complete(Inst(last.node, i))
          /\ Inst(last.node, i).resolved \in Words
          /\ InRange(Inst(last.node, i).index)
          /\ \A k \in 1..WordSlots :
                word_list[last.node][k] # Inst(last.node, i).resolved

\* the ids reached from instance i of node n by following parentid through
\* the node's store, in at most k steps
RECURSIVE AncestorsWithin(_, _, _)
AncestorsWithin(n, i, k) ==
    IF k = 0 \/ i \notin DOMAIN consensus_map[n] THEN {}
    ELSE IF Inst(n, i).parentid = NoId THEN {}
    ELSE {Inst(n, i).parentid} \cup AncestorsWithin(n, Inst(n, i).parentid, k - 1)

Ancestors(n, i) == AncestorsWithin(n, i, Cardinality(DOMAIN consensus_map[n]))

\* the instance i of node n is the root rid or descends from it
BelongsTo(n, i, rid) == i = rid \/ rid \in Ancestors(n, i)

\* C27: with no node lying and no datagram but those start_root_consensus
\* and launch_subconsensus send, every value carried in a datagram, held in
\* a reports dict, held as resolved or written to a slot for a root or a
\* descendant of it is the word given to start_root_consensus for that root.
C27_ValidityWithoutLiars ==
    (\A n \in Node : ~lie_mode[n]) =>
      \A r \in started :
        /\ \A d \in net :
              (d.msg.id = r.id \/ d.msg.parentid = r.id
                 \/ r.id \in Ancestors(d.src, d.msg.parentid))
              => d.msg.value = r.value
        /\ \A n \in Node : \A i \in DOMAIN consensus_map[n] :
              BelongsTo(n, i, r.id) =>
                /\ \A k \in DOMAIN Inst(n, i).reports :
                      Inst(n, i).reports[k][2] = r.value
                /\ Inst(n, i).resolved \in {NoValue, r.value}
        /\ \A n \in Node : \A w \in written[n] :
              (w.id \in DOMAIN consensus_map[n] /\ BelongsTo(n, w.id, r.id))
              => w.value = r.value

\* four honest nodes: the root reached every other node, each holds the
\* initiator's report, and the initiator's slot is written
C27_Witness ==
    /\ FleetOf(4) /\ Liars = {} /\ Quiet
    /\ \E r \in started :
          /\ \A n \in running : r.id \in DOMAIN consensus_map[n]
                                /\ Inst(n, r.id).reports # <<>>
          /\ \E w \in written[r.node] : w.id = r.id

\* C28: in every store, also one built from inbound datagrams with any id
\* and parentid, following parentid from an instance ends at a root or at an
\* id the store lacks: no instance is its own ancestor, so that
\* propagate_result_upwards cannot recurse without end.
C28_NoSelfAncestor ==
    \A n \in Node : \A i \in DOMAIN consensus_map[n] : i \notin Ancestors(n, i)

\* a handler has completed an instance that is its own ancestor and was left
\* by the exception that ends the recursion
C28_Witness ==
    /\ last.op = "handle_consensus" /\ last.raised
    /\ last.arg.id \in DOMAIN consensus_map[last.node]
    /\ last.arg.id \in Ancestors(last.node, last.arg.id)
    /\ Inst(last.node, last.arg.id).omlevel = 0
    /\ is_complete(Inst(last.node, last.arg.id))

\* the step just taken resolved the instance i of node n, of level > 0
ParentResolves(n, i) ==
    /\ consensus_map'[n][i].omlevel > 0
    /\ consensus_map'[n][i].resolved # NoValue
    /\ i \in DOMAIN consensus_map[n] => Inst(n, i).resolved = NoValue

\* C29: an instance of level > 0 counts for a remote reporter the decision of
\* the child launched for that reporter: when it resolves (and, a root,
\* writes its slot) the store holds, for every remote reporter in its
\* reports, a resolved child of it with that reporter whose decision is the
\* value counted.
C29_ParentCountsChildDecisions ==
    [][ \A n \in Node : \A i \in DOMAIN consensus_map'[n] :
          ParentResolves(n, i) =>
            \A r \in Keys(consensus_map'[n][i].reports) \ {n} :
               \E j \in DOMAIN consensus_map'[n] :
                  /\ consensus_map'[n][j].parentid = i
                  /\ consensus_map'[n][j].reporter = r
                  /\ consensus_map'[n][j].resolved # NoValue
                  /\ consensus_map'[n][j].resolved = Get(consensus_map'[n][i].reports, r)
      ]_vars

\* a root of level > 0 is resolved and has written its slot, a reporter of
\* it is marked launched, and the store holds no child for that reporter
C29_Witness ==
    \E n \in Node : \E i \in DOMAIN consensus_map[n] :
        /\ Inst(n, i).omlevel > 0 /\ Inst(n, i).parentid = NoId
        /\ Inst(n, i).resolved # NoValue
        /\ \E w \in written[n] : w.id = i
        /\ \E r \in Inst(n, i).subconsensus_launched \ {n} :
              /\ r \in Keys(Inst(n, i).reports)
              /\ \A j \in DOMAIN consensus_map[n] :
                    ~(Inst(n, j).parentid = i /\ Inst(n, j).reporter = r)

====
